---- MODULE Spec2Model ----
(***************************************************************************)
(* Claude Code Agent (n8n): the policy functions of common.ts and the      *)
(* execution supervisor claudeCodeAgentExecute of V1/execute.ts.           *)
(*                                                                         *)
(* Strings of the program are sequences of one-character strings, so that  *)
(* startsWith, trim, split and the regular expressions of the deny list    *)
(* are computed character by character, as the code computes them.         *)
(***************************************************************************)
EXTENDS Integers, Sequences, FiniteSets, TLC

VARIABLES
    \* inputs of one call of claudeCodeAgentExecute
    items,          \* the prompts of the input items, in order
    options,        \* the node's options
    continueOnFail, \* this.continueOnFail()
    \* the call
    pc,             \* where the call is: the await it is suspended at, or how it ended
    cur,            \* itemIndex
    sandboxConfig,  \* the SandboxConfig object
    workspacePath,  \* createSandboxedWorkspace's workspacePath
    workspace,      \* the WorkspaceContext, NoWorkspace while null
    returnData,     \* the output records
    error,          \* the error the call throws once its finally block is over
    runs,           \* per item: its stream, its executeAgent promise, agentMessages, finalResult
    \* the process and the machine
    envKey,         \* process.env.ANTHROPIC_API_KEY
    fs,             \* the workspace directories that exist
    fsOps,          \* the completed mkdir and rm calls, in order
    log,            \* what context.logger received, in order
    \* the policy functions on their own
    call,           \* the pure function applied and its arguments
    ret             \* its return value, NotReturned before the call

inputVars == <<items, options, continueOnFail>>
mainVars == <<pc, cur, returnData, error, runs, log>>
execVars == <<sandboxConfig, workspacePath, workspace, envKey, fs, fsOps>>
pureVars == <<call, ret>>
vars == <<inputVars, mainVars, execVars, pureVars>>

\* ------------------------------------------------------------------ values

\* JavaScript null, as returned by filterCommand.
Null == <<"null">>

\* No value yet.
NotReturned == <<"pending">>

NoCall == [fn |-> "none"]

\* ----------------------------------------------------------------- strings

\* WhiteSpace and LineTerminator characters: what \s matches and trim() strips.
IsSpace(c) == c \in {" ", "\t", "\n"}

\* Canonicalisation of the case-insensitive flag, for the letters of the inputs.
UpperToLower ==
    [c \in {"C", "D", "E", "F", "H", "I", "K", "L", "M", "N", "O", "R", "S", "T", "U", "W"} |->
        CASE c = "C" -> "c" [] c = "D" -> "d" [] c = "E" -> "e" [] c = "F" -> "f"
          [] c = "H" -> "h" [] c = "I" -> "i" [] c = "K" -> "k" [] c = "L" -> "l"
          [] c = "M" -> "m" [] c = "N" -> "n" [] c = "O" -> "o" [] c = "R" -> "r"
          [] c = "S" -> "s" [] c = "T" -> "t" [] c = "U" -> "u" [] c = "W" -> "w"]

Lower(c) == IF c \in DOMAIN UpperToLower THEN UpperToLower[c] ELSE c

\* String.prototype.startsWith
StartsWith(s, prefix) ==
    /\ Len(prefix) <= Len(s)
    /\ \A i \in 1..Len(prefix) : s[i] = prefix[i]

\* String.prototype.trim
RECURSIVE TrimLeft(_)
TrimLeft(s) == IF s # <<>> /\ IsSpace(Head(s)) THEN TrimLeft(Tail(s)) ELSE s

RECURSIVE TrimRight(_)
TrimRight(s) ==
    IF s # <<>> /\ IsSpace(s[Len(s)]) THEN TrimRight(SubSeq(s, 1, Len(s) - 1)) ELSE s

Trim(s) == TrimRight(TrimLeft(s))

\* String.prototype.split(/\s+/): the pieces between the maximal whitespace runs.
RECURSIVE SplitWsFrom(_, _, _, _)
SplitWsFrom(s, i, tok, acc) ==
    IF i > Len(s) THEN Append(acc, tok)
    ELSE IF IsSpace(s[i])
         THEN IF i < Len(s) /\ IsSpace(s[i + 1])
              THEN SplitWsFrom(s, i + 1, tok, acc)
              ELSE SplitWsFrom(s, i + 1, <<>>, Append(acc, tok))
         ELSE SplitWsFrom(s, i + 1, Append(tok, s[i]), acc)

SplitWs(s) == SplitWsFrom(s, 1, <<>>, <<>>)

\* String.prototype.split(ch) for a one-character separator.
RECURSIVE SplitCharFrom(_, _, _, _, _)
SplitCharFrom(s, ch, i, tok, acc) ==
    IF i > Len(s) THEN Append(acc, tok)
    ELSE IF s[i] = ch
         THEN SplitCharFrom(s, ch, i + 1, <<>>, Append(acc, tok))
         ELSE SplitCharFrom(s, ch, i + 1, Append(tok, s[i]), acc)

SplitChar(s, ch) == SplitCharFrom(s, ch, 1, <<>>, <<>>)

\* Array.prototype.join(sep)
RECURSIVE JoinWith(_, _)
JoinWith(parts, sep) ==
    IF parts = <<>> THEN <<>>
    ELSE IF Len(parts) = 1 THEN parts[1]
    ELSE parts[1] \o sep \o JoinWith(Tail(parts), sep)

\* -------------------------------------------------------------------- paths

\* normalizeString of node:path (posix) on the segments of an absolute path:
\* empty and "." segments are dropped, ".." drops the segment before it and is
\* itself dropped at the root.
RECURSIVE NormalizeSegments(_, _)
NormalizeSegments(segs, acc) ==
    IF segs = <<>> THEN acc
    ELSE LET seg == Head(segs) IN
         IF seg = <<>> \/ seg = <<".">> THEN NormalizeSegments(Tail(segs), acc)
         ELSE IF seg = <<".", ".">>
              THEN NormalizeSegments(Tail(segs),
                                     IF acc = <<>> THEN acc ELSE SubSeq(acc, 1, Len(acc) - 1))
              ELSE NormalizeSegments(Tail(segs), Append(acc, seg))

NormalizeAbsolute(path) ==
    <<"/">> \o JoinWith(NormalizeSegments(SplitChar(path, "/"), <<>>), <<"/">>)

\* path.resolve(base, name) for an absolute base, and path.join on absolute ones.
PathResolve(base, name) == NormalizeAbsolute(base \o <<"/">> \o name)

\* path.resolve(p) in a process whose working directory is cwd.
ResolveFrom(cwd, p) ==
    IF StartsWith(p, <<"/">>) THEN NormalizeAbsolute(p)
    ELSE NormalizeAbsolute(cwd \o <<"/">> \o p)

\* The segments of a resolved path.
Segments(resolved) == NormalizeSegments(SplitChar(resolved, "/"), <<>>)

RECURSIVE CommonPrefixLen(_, _)
CommonPrefixLen(a, b) ==
    IF a # <<>> /\ b # <<>> /\ Head(a) = Head(b)
    THEN 1 + CommonPrefixLen(Tail(a), Tail(b))
    ELSE 0

\* path.relative(from, to) on resolved paths: one ".." for every segment of
\* from after the common prefix, then the segments of to after it.
PathRelative(from, to) ==
    LET f == Segments(from)
        t == Segments(to)
        k == CommonPrefixLen(f, t)
        ups == [n \in 1..(Len(f) - k) |-> <<".", ".">>]
    IN JoinWith(ups \o SubSeq(t, k + 1, Len(t)), <<"/">>)

\* validatePath accepting an absolute path that is inside the workspace.
validatePath_NoAbsoluteCheck(filePath, workspaceDir, cwd) ==
    LET resolvedPath == ResolveFrom(cwd, filePath)
        resolvedWorkspace == ResolveFrom(cwd, workspaceDir)
        relativePath == PathRelative(resolvedWorkspace, resolvedPath)
    IN ~StartsWith(relativePath, <<".", ".">>)

\* validatePath looking at the raw form alone.
validatePath_NoClimbCheck(filePath, workspaceDir, cwd) ==
    ~StartsWith(filePath, <<"/">>)

\* validatePath, in a process whose working directory is cwd.
validatePath(filePath, workspaceDir, cwd) ==
    LET resolvedPath == ResolveFrom(cwd, filePath)
        resolvedWorkspace == ResolveFrom(cwd, workspaceDir)
        relativePath == PathRelative(resolvedWorkspace, resolvedPath)
    IN ~StartsWith(relativePath, <<".", ".">>) /\ ~StartsWith(filePath, <<"/">>)

\* ------------------------------------------------------ regular expressions

\* A pattern is a set of alternatives; an alternative is a sequence of atoms:
\* a literal character (compared case-insensitively: every pattern carries the
\* i flag), \s+, \s* or .*
Lit(chars) == [i \in 1..Len(chars) |-> [k |-> "lit", c |-> chars[i]]]
Ws1 == <<[k |-> "ws1", c |-> ""]>>
Ws0 == <<[k |-> "ws0", c |-> ""]>>
Dot0 == <<[k |-> "dot0", c |-> ""]>>

\* Whether atoms pi.. of the alternative match s from position si on.
RECURSIVE MatchFrom(_, _, _, _)
MatchFrom(p, pi, s, si) ==
    IF pi > Len(p) THEN TRUE
    ELSE LET a == p[pi] IN
         CASE a.k = "lit" ->
                /\ si <= Len(s)
                /\ Lower(s[si]) = a.c
                /\ MatchFrom(p, pi + 1, s, si + 1)
           [] a.k = "ws1" ->
                /\ si <= Len(s)
                /\ IsSpace(s[si])
                /\ \/ MatchFrom(p, pi + 1, s, si + 1)
                   \/ MatchFrom(p, pi, s, si + 1)
           [] a.k = "ws0" ->
                \/ MatchFrom(p, pi + 1, s, si)
                \/ /\ si <= Len(s)
                   /\ IsSpace(s[si])
                   /\ MatchFrom(p, pi, s, si + 1)
           [] a.k = "dot0" ->
                \/ MatchFrom(p, pi + 1, s, si)
                \/ /\ si <= Len(s)
                   /\ s[si] # "\n"
                   /\ MatchFrom(p, pi, s, si + 1)

\* RegExp.prototype.test on a fresh pattern (lastIndex 0): a match anywhere.
RegexTest(pattern, s) ==
    \E alt \in pattern : \E start \in 1..(Len(s) + 1) : MatchFrom(alt, 1, s, start)

\* The nine patterns of filterCommand, in order. In the last one the source text
\* :(){ :|:& };: is a disjunction of two alternatives, the empty group () matches
\* the empty string and the braces are literal characters.
dangerousPatterns ==
    << {Lit(<<"r", "m">>) \o Ws1 \o Lit(<<"-", "r", "f">>) \o Ws1 \o Lit(<<"/">>)},
       {Lit(<<"s", "u", "d", "o">>)},
       {Lit(<<"c", "h", "m", "o", "d">>) \o Ws1 \o Lit(<<"7", "7", "7">>)},
       {Lit(<<"c", "u", "r", "l">>) \o Dot0 \o Lit(<<"|">>) \o Dot0 \o Lit(<<"s", "h">>)},
       {Lit(<<"w", "g", "e", "t">>) \o Dot0 \o Lit(<<"|">>) \o Dot0 \o Lit(<<"s", "h">>)},
       {Lit(<<">">>) \o Ws0 \o Lit(<<"/", "d", "e", "v", "/", "s", "d", "a">>)},
       {Lit(<<"m", "k", "f", "s">>)},
       {Lit(<<"d", "d">>) \o Ws1 \o Lit(<<"i", "f", "=">>)},
       {Lit(<<":", "{", " ", ":">>), Lit(<<":", "&", " ", "}", ";", ":">>)} >>

\* ------------------------------------------------------------ policy engine

\* The pattern loop of filterCommand: whether some pattern rejects the command.
MatchesDangerousPattern(command) ==
    \E n \in 1..Len(dangerousPatterns) : RegexTest(dangerousPatterns[n], command)

\* isCommandAllowed comparing without case.
isCommandAllowed_IgnoreCase(command, allowedCommands) ==
    LET baseCommand == SplitWs(Trim(command))[1]
        fold(w) == [k \in 1..Len(w) |-> Lower(w[k])]
    IN \E n \in 1..Len(allowedCommands) : fold(allowedCommands[n]) = fold(baseCommand)

\* isCommandAllowed: the first word of the trimmed command is in the list.
isCommandAllowed(command, allowedCommands) ==
    LET baseCommand == SplitWs(Trim(command))[1] IN
    \E n \in 1..Len(allowedCommands) : allowedCommands[n] = baseCommand

\* filterCommand letting an allow-listed command through before the patterns.
filterCommand_AllowFirst(command, config) ==
    IF ~config.enableBashCommands THEN Null
    ELSE IF isCommandAllowed(command, config.allowedCommands) THEN command
    ELSE Null

\* filterCommand: the command itself, or null.
filterCommand(command, config) ==
    IF ~config.enableBashCommands THEN Null
    ELSE IF MatchesDangerousPattern(command) THEN Null
    ELSE IF ~isCommandAllowed(command, config.allowedCommands) THEN Null
    ELSE command

\* ----------------------------------------------------- values of the program

\* JavaScript undefined, and a value that is neither undefined nor a string.
Undefined == <<"undefined">>
ArrayValue == <<"array">>

Truthy(v) == v # Undefined /\ v # <<>>
IsString(v) == v # Undefined /\ v # ArrayValue

\* obj?.name
Field(obj, name) == IF name \in DOMAIN obj THEN obj[name] ELSE Undefined

\* process.env.ANTHROPIC_API_KEY: absent, a value set before the call, or the
\* credential executeAgent installs.
NoKey == <<"unset">>
AmbientKey == <<"ambient">>
ApiKey == <<"credential">>

NoWorkspace == [path |-> Null]

\* Errors: the message, and the command a blocked-command message ends with.
NoError == [message |-> "", command |-> <<>>]
Err(message) == [message |-> message, command |-> <<>>]
ErrNotAbsolute == Err("Workspace path must be an absolute path")
ErrSensitive == Err("Workspace path cannot be in sensitive system directories")
ErrMkdir == Err("mkdir failed")
ErrMissingPrompt == Err("No prompt provided for Claude Agent")
ErrSdk == Err("Failed to load Claude Agent SDK")
ErrCredentials == Err("Anthropic API key not found")
ErrTimeout == Err("Agent execution timeout")
ErrUpstream == Err("agent stream failed")
ErrBlocked(command) ==
    [message |-> "Command blocked by security filters: ", command |-> command]

WorkflowId == <<"w", "1">>
ExecutionId == <<"e", "1">>
TmpDir == <<"/", "t", "m", "p">>
DefaultMaxTurns == 10
DefaultTimeout == 300000

\* ---------------------------------------------------------------- audit sink

\* auditLog: one info entry of the logger, tagged [AUDIT].
auditLog(action, details) ==
    [ level |-> "info", audit |-> TRUE, action |-> action,
      workflowId |-> WorkflowId, executionId |-> ExecutionId, details |-> details ]

\* context.logger.info / context.logger.warn outside auditLog.
LogEntry(level, message, details) ==
    [ level |-> level, audit |-> FALSE, action |-> message,
      workflowId |-> WorkflowId, executionId |-> ExecutionId, details |-> details ]

\* -------------------------------------------------------- result translator

\* convertAgentMessageToN8nData treating the result as a detail.
convertAgentMessageToN8nData_ResultAsDetail(message, returnIntermediateSteps) ==
    CASE message.type = "text" ->
            [type |-> message.type, text |-> Field(message, "text")]
      [] message.type = "tool_use" ->
            IF returnIntermediateSteps
            THEN [ type |-> message.type, tool |-> Field(message, "tool"),
                   toolInput |-> Field(message, "input"), toolCallId |-> Field(message, "id") ]
            ELSE [type |-> message.type]
      [] message.type = "tool_result" ->
            IF returnIntermediateSteps
            THEN [ type |-> message.type, toolCallId |-> Field(message, "tool_use_id"),
                   toolResult |-> Field(message, "content") ]
            ELSE [type |-> message.type]
      [] message.type = "result" ->
            IF returnIntermediateSteps
            THEN [type |-> message.type, output |-> Field(message, "result")]
            ELSE [type |-> message.type]
      [] OTHER ->
            [type |-> message.type, message |-> message]

\* convertAgentMessageToN8nData filling in the tool fields whatever the flag.
convertAgentMessageToN8nData_AlwaysDetail(message, returnIntermediateSteps) ==
    CASE message.type = "text" ->
            [type |-> message.type, text |-> Field(message, "text")]
      [] message.type = "tool_use" ->
            [ type |-> message.type, tool |-> Field(message, "tool"),
              toolInput |-> Field(message, "input"), toolCallId |-> Field(message, "id") ]
      [] message.type = "tool_result" ->
            [ type |-> message.type, toolCallId |-> Field(message, "tool_use_id"),
              toolResult |-> Field(message, "content") ]
      [] message.type = "result" ->
            [type |-> message.type, output |-> Field(message, "result")]
      [] OTHER ->
            [type |-> message.type, message |-> message]

\* convertAgentMessageToN8nData: the json of the record.
convertAgentMessageToN8nData(message, returnIntermediateSteps) ==
    CASE message.type = "text" ->
            [type |-> message.type, text |-> Field(message, "text")]
      [] message.type = "tool_use" ->
            IF returnIntermediateSteps
            THEN [ type |-> message.type, tool |-> Field(message, "tool"),
                   toolInput |-> Field(message, "input"), toolCallId |-> Field(message, "id") ]
            ELSE [type |-> message.type]
      [] message.type = "tool_result" ->
            IF returnIntermediateSteps
            THEN [ type |-> message.type, toolCallId |-> Field(message, "tool_use_id"),
                   toolResult |-> Field(message, "content") ]
            ELSE [type |-> message.type]
      [] message.type = "result" ->
            [type |-> message.type, output |-> Field(message, "result")]
      [] OTHER ->
            [type |-> message.type, message |-> message]

\* ------------------------------------------------------ sandboxed environment

\* createSandboxedEnvironment spreading the process environment under its own
\* variables.
createSandboxedEnvironment_Inherit(ws, processEnv) ==
    [ HOME |-> ws.path,
      PATH |-> <<"/", "u", "s", "r", "/", "l", "o", "c", "a", "l", "/", "b", "i", "n", ":",
                 "/", "u", "s", "r", "/", "b", "i", "n", ":", "/", "b", "i", "n">>,
      WORKSPACE |-> ws.path,
      SHELL |-> <<"/", "b", "i", "n", "/", "s", "h">>,
      USER |-> <<"n", "8", "n", "-", "a", "g", "e", "n", "t">> ] @@ processEnv

\* createSandboxedEnvironment for the context ws, called in a process whose
\* environment is processEnv.
createSandboxedEnvironment(ws, processEnv) ==
    [ HOME |-> ws.path,
      PATH |-> <<"/", "u", "s", "r", "/", "l", "o", "c", "a", "l", "/", "b", "i", "n", ":",
                 "/", "u", "s", "r", "/", "b", "i", "n", ":", "/", "b", "i", "n">>,
      WORKSPACE |-> ws.path,
      SHELL |-> <<"/", "b", "i", "n", "/", "s", "h">>,
      USER |-> <<"n", "8", "n", "-", "a", "g", "e", "n", "t">> ]

\* --------------------------------------------------------- workspace manager

deniedPaths ==
    << <<"/", "e", "t", "c">>, <<"/", "r", "o", "o", "t">>, <<"/", "s", "y", "s">>,
       <<"/", "p", "r", "o", "c">>, <<"/", "d", "e", "v">>, <<"/", "b", "o", "o", "t">> >>

\* createSandboxedWorkspace checking that the path is absolute and no more.
WorkspacePathFor_NoDenyList(customPath, randomId) ==
    IF Truthy(customPath)
    THEN IF ~StartsWith(customPath, <<"/">>)
         THEN [error |-> ErrNotAbsolute, path |-> <<>>]
         ELSE [ error |-> NoError,
                path |-> PathResolve(customPath,
                             <<"c", "l", "a", "u", "d", "e", "-", "a", "g", "e", "n", "t", "-">>
                                 \o randomId) ]
    ELSE [ error |-> NoError,
           path |-> NormalizeAbsolute(
                        TmpDir \o <<"/">>
                            \o <<"n", "8", "n", "-", "c", "l", "a", "u", "d", "e", "-", "a", "g", "e", "n", "t">>
                            \o <<"/">> \o WorkflowId \o <<"/">> \o randomId) ]

\* createSandboxedWorkspace up to its mkdir: the error it throws, or the
\* directory it is about to create.
WorkspacePathFor(customPath, randomId) ==
    IF Truthy(customPath)
    THEN IF ~StartsWith(customPath, <<"/">>)
         THEN [error |-> ErrNotAbsolute, path |-> <<>>]
         ELSE IF \E n \in 1..Len(deniedPaths) : StartsWith(customPath, deniedPaths[n])
              THEN [error |-> ErrSensitive, path |-> <<>>]
              ELSE [ error |-> NoError,
                     path |-> PathResolve(customPath,
                                  <<"c", "l", "a", "u", "d", "e", "-", "a", "g", "e", "n", "t", "-">>
                                      \o randomId) ]
    ELSE [ error |-> NoError,
           path |-> NormalizeAbsolute(
                        TmpDir \o <<"/">>
                            \o <<"n", "8", "n", "-", "c", "l", "a", "u", "d", "e", "-", "a", "g", "e", "n", "t">>
                            \o <<"/">> \o WorkflowId \o <<"/">> \o randomId) ]

\* ------------------------------------------------------ execution supervisor

\* One item's run: its agent stream (unopened, open, closed), the number of
\* messages it yielded and those messages, the executeAgent promise (none,
\* pending, resolved, rejected) and the error it rejected with, the locals
\* agentMessages and finalResult, and how the item's try block ended (none,
\* ok, error).
NewRun ==
    [ stream |-> "unopened", consumed |-> 0, yielded |-> <<>>, exec |-> "none",
      execError |-> NoError,
      agentMessages |-> <<>>, finalResult |-> <<>>, outcome |-> "none",
      outcomeError |-> NoError ]

ItemIndexes == 0..(Len(items) - 1)

\* The state the call's own code reads and writes between two awaits.
Main ==
    [ pc |-> pc, cur |-> cur, rd |-> returnData, err |-> error, rs |-> runs, lg |-> log,
      ws |-> workspace ]

SetMain(m) ==
    /\ pc' = m.pc
    /\ cur' = m.cur
    /\ returnData' = m.rd
    /\ error' = m.err
    /\ runs' = m.rs
    /\ log' = m.lg

\* The allowedCommands option, split and trimmed.
ParseAllowedCommands(str) ==
    LET parts == SplitChar(IF Truthy(str) THEN str
                           ELSE <<"n", "o", "d", "e", ",", "p", "y", "t", "h", "o", "n", "3", ",",
                                  "n", "p", "m", ",", "p", "i", "p", ",", "g", "i", "t">>, ",")
    IN [n \in 1..Len(parts) |-> Trim(parts[n])]

\* The SandboxConfig object as constructed, workspacePath still empty.
NewSandboxConfig(opts) ==
    [ workspacePath |-> <<>>,
      enableFileAccess |-> opts.enableFileAccess,
      enableCodeExecution |-> opts.enableCodeExecution,
      enableBashCommands |-> opts.enableBashCommands,
      allowedCommands |-> ParseAllowedCommands(opts.allowedCommands),
      timeout |-> DefaultTimeout ]

\* The cleanup after the loop instead of in a finally block: an error skips it.
EnterFinally_SkippedByError(i, e, m) ==
    IF e = NoError THEN [m EXCEPT !.pc = "cleanup", !.cur = i, !.err = e]
    ELSE [m EXCEPT !.pc = "thrown", !.cur = i, !.err = e]

\* The outer finally block is entered with error e pending (NoError: the loop
\* is over): cleanupSandboxedWorkspace is called and awaits its rm.
EnterFinally(i, e, m) == [m EXCEPT !.pc = "cleanup", !.cur = i, !.err = e]

RECURSIVE LoopFrom(_, _), ItemCatch(_, _, _)

\* The catch block putting its error record first in the output.
ItemCatch_Unshift(i, e, m) ==
    LET m1 == [m EXCEPT !.rs[i].outcome = "error", !.rs[i].outcomeError = e] IN
    IF continueOnFail
    THEN LoopFrom(i + 1, [m1 EXCEPT !.rd = <<[error |-> e, itemIndex |-> i]>> \o @])
    ELSE EnterFinally(i, e, m1)

\* The catch block recording the error and going on whatever continueOnFail says.
ItemCatch_AlwaysContinue(i, e, m) ==
    LET m1 == [m EXCEPT !.rs[i].outcome = "error", !.rs[i].outcomeError = e] IN
    LoopFrom(i + 1, [m1 EXCEPT !.rd = Append(@, [error |-> e, itemIndex |-> i])])

\* The catch block returning what the item had streamed before its error.
ItemCatch_KeepPartial(i, e, m) ==
    LET m1 == [m EXCEPT !.rs[i].outcome = "error", !.rs[i].outcomeError = e] IN
    IF continueOnFail
    THEN LoopFrom(i + 1, [m1 EXCEPT !.rd = Append(@ \o m.rs[i].agentMessages,
                                                  [error |-> e, itemIndex |-> i])])
    ELSE EnterFinally(i, e, m1)

\* The catch block of item i: an error record and the next item, or the
\* error goes on to the finally block.
ItemCatch(i, e, m) ==
    LET m1 == [m EXCEPT !.rs[i].outcome = "error", !.rs[i].outcomeError = e] IN
    IF continueOnFail
    THEN LoopFrom(i + 1, [m1 EXCEPT !.rd = Append(@, [error |-> e, itemIndex |-> i])])
    ELSE EnterFinally(i, e, m1)

\* The item loop emitting AGENT_START before it checks the prompt.
LoopFrom_StartBeforeCheck(i, m) ==
    IF i >= Len(items) THEN EnterFinally(i, NoError, m)
    ELSE LET m1 == [ m EXCEPT !.lg = Append(@, auditLog("AGENT_START",
                                      [ itemIndex |-> i, promptLength |-> Len(items[i + 1]),
                                        workspace |-> m.ws.path ])) ]
         IN IF ~Truthy(items[i + 1]) THEN ItemCatch(i, ErrMissingPrompt, m1)
            ELSE [m1 EXCEPT !.pc = "import", !.cur = i]

\* The item loop going on to the import without its AGENT_START event.
LoopFrom_NoStartEvent(i, m) ==
    IF i >= Len(items) THEN EnterFinally(i, NoError, m)
    ELSE IF ~Truthy(items[i + 1]) THEN ItemCatch(i, ErrMissingPrompt, m)
    ELSE [m EXCEPT !.pc = "import", !.cur = i]

\* The item loop from index i up to its next await: the prompt check and the
\* AGENT_START event of the first item that has a prompt; items without one
\* go through the catch block.
LoopFrom(i, m) ==
    IF i >= Len(items) THEN EnterFinally(i, NoError, m)
    ELSE IF ~Truthy(items[i + 1]) THEN ItemCatch(i, ErrMissingPrompt, m)
    ELSE [ m EXCEPT !.pc = "import", !.cur = i,
                    !.lg = Append(@, auditLog("AGENT_START",
                                      [ itemIndex |-> i, promptLength |-> Len(items[i + 1]),
                                        workspace |-> m.ws.path ])) ]

\* The result assembly looking at enableStreaming alone.
ItemSuccess_StreamingOnly(i, m) ==
    LET run == m.rs[i]
        rd1 == IF options.enableStreaming
               THEN m.rd \o run.agentMessages
               ELSE Append(m.rd, [output |-> run.finalResult, workspace |-> m.ws.path])
    IN LoopFrom(i + 1, [m EXCEPT !.rd = rd1, !.rs[i].outcome = "ok"])

\* The code after the race of item i was won by executeAgent: the item's records.
ItemSuccess(i, m) ==
    LET run == m.rs[i]
        rd1 == IF options.enableStreaming /\ options.returnIntermediateSteps
               THEN m.rd \o run.agentMessages
               ELSE Append(m.rd, [output |-> run.finalResult, workspace |-> m.ws.path])
    IN LoopFrom(i + 1, [m EXCEPT !.rd = rd1, !.rs[i].outcome = "ok"])

\* executeAgent of item i has settled with e (NoError: resolved). The race is
\* decided by it only while the call still awaits that race.
SettleRace(i, e, m) ==
    IF m.pc = "race" /\ m.cur = i
    THEN IF e = NoError THEN ItemSuccess(i, m) ELSE ItemCatch(i, e, m)
    ELSE m

\* The command a tool_use message is filtered on, Undefined when there is none:
\* only the tools bash and execute_command, only a non-empty string.
CommandToFilter(msg) ==
    IF Field(msg, "tool") \in {"bash", "execute_command"}
    THEN LET command == IF "input" \notin DOMAIN msg THEN Undefined
                        ELSE IF Truthy(Field(msg.input, "command"))
                             THEN Field(msg.input, "command")
                             ELSE Field(msg.input, "cmd")
         IN IF Truthy(command) /\ IsString(command) THEN command ELSE Undefined
    ELSE Undefined

\* The loop body logging a rejected command without throwing.
ProcessMessage_WarnOnly(i, msg, run, config) ==
    LET n8nData == convertAgentMessageToN8nData(msg, options.returnIntermediateSteps)
        run1 == [run EXCEPT !.consumed = @ + 1, !.yielded = Append(@, msg),
                            !.agentMessages = IF options.enableStreaming
                                              THEN Append(@, n8nData) ELSE @]
        run2 == IF msg.type = "result" THEN [run1 EXCEPT !.finalResult = msg.result] ELSE run1
        lg1 == IF msg.type = "result"
               THEN <<auditLog("AGENT_COMPLETE",
                               [itemIndex |-> i, resultLength |-> Len(msg.result)])>>
               ELSE <<>>
        lg2 == IF msg.type = "tool_use"
               THEN Append(lg1, auditLog("TOOL_USE",
                               [ itemIndex |-> i, tool |-> Field(msg, "tool"),
                                 toolInput |-> Field(msg, "input") ]))
               ELSE lg1
        command == IF msg.type = "tool_use" THEN CommandToFilter(msg) ELSE Undefined
        blocked == command # Undefined /\ filterCommand(command, config) = Null
    IN [ run |-> run2,
         lg |-> IF blocked
                THEN Append(lg2, LogEntry("warn", "Blocked dangerous command",
                                          [command |-> command, itemIndex |-> i]))
                ELSE lg2,
         thrown |-> NoError ]

\* The loop body writing its TOOL_USE event after the filter has let the
\* command through.
ProcessMessage_AuditAfterFilter(i, msg, run, config) ==
    LET n8nData == convertAgentMessageToN8nData(msg, options.returnIntermediateSteps)
        run1 == [run EXCEPT !.consumed = @ + 1, !.yielded = Append(@, msg),
                            !.agentMessages = IF options.enableStreaming
                                              THEN Append(@, n8nData) ELSE @]
        run2 == IF msg.type = "result" THEN [run1 EXCEPT !.finalResult = msg.result] ELSE run1
        lg1 == IF msg.type = "result"
               THEN <<auditLog("AGENT_COMPLETE",
                               [itemIndex |-> i, resultLength |-> Len(msg.result)])>>
               ELSE <<>>
        lg2 == IF msg.type = "tool_use"
               THEN Append(lg1, auditLog("TOOL_USE",
                               [ itemIndex |-> i, tool |-> Field(msg, "tool"),
                                 toolInput |-> Field(msg, "input") ]))
               ELSE lg1
        command == IF msg.type = "tool_use" THEN CommandToFilter(msg) ELSE Undefined
        blocked == command # Undefined /\ filterCommand(command, config) = Null
    IN [ run |-> run2,
         lg |-> IF blocked
                THEN Append(lg1, LogEntry("warn", "Blocked dangerous command",
                                          [command |-> command, itemIndex |-> i]))
                ELSE lg2,
         thrown |-> IF blocked THEN ErrBlocked(command) ELSE NoError ]

\* The body of the for-await loop for one message of item i: the run's locals
\* after it, the log entries it wrote and the error it threw (NoError: none).
ProcessMessage(i, msg, run, config) ==
    LET n8nData == convertAgentMessageToN8nData(msg, options.returnIntermediateSteps)
        run1 == [run EXCEPT !.consumed = @ + 1, !.yielded = Append(@, msg),
                            !.agentMessages = IF options.enableStreaming
                                              THEN Append(@, n8nData) ELSE @]
        run2 == IF msg.type = "result" THEN [run1 EXCEPT !.finalResult = msg.result] ELSE run1
        lg1 == IF msg.type = "result"
               THEN <<auditLog("AGENT_COMPLETE",
                               [itemIndex |-> i, resultLength |-> Len(msg.result)])>>
               ELSE <<>>
        lg2 == IF msg.type = "tool_use"
               THEN Append(lg1, auditLog("TOOL_USE",
                               [ itemIndex |-> i, tool |-> Field(msg, "tool"),
                                 toolInput |-> Field(msg, "input") ]))
               ELSE lg1
        command == IF msg.type = "tool_use" THEN CommandToFilter(msg) ELSE Undefined
        blocked == command # Undefined /\ filterCommand(command, config) = Null
    IN [ run |-> run2,
         lg |-> IF blocked
                THEN Append(lg2, LogEntry("warn", "Blocked dangerous command",
                                          [command |-> command, itemIndex |-> i]))
                ELSE lg2,
         thrown |-> IF blocked THEN ErrBlocked(command) ELSE NoError ]

\* executeAgent of item i ends with e (NoError: it returns): its finally block
\* has cleared the key, the stream is closed and the promise settles.
EndExecuteAgent(i, e, m) ==
    SettleRace(i, e, [m EXCEPT !.rs[i].stream = "closed",
                               !.rs[i].exec = IF e = NoError THEN "resolved" ELSE "rejected",
                               !.rs[i].execError = e])

\* ------------------------------------------------------------------ actions

\* The largest number of input items, and of messages the streams of one call
\* yield between them.
MaxItems == 2
MaxMsgs == 2

\* randomBytes(8) in hex, shortened. One call draws one value.
RandomIds == { <<"0", "a">> }

RECURSIVE ConsumedUpTo(_)
ConsumedUpTo(n) == IF n = 0 THEN 0 ELSE runs[n - 1].consumed + ConsumedUpTo(n - 1)

TotalConsumed == ConsumedUpTo(Len(items))

\* claudeCodeAgentExecute up to the mkdir of createSandboxedWorkspace.
Start ==
    /\ pc = "idle"
    /\ \E randomId \in RandomIds :
         LET w == WorkspacePathFor(options.workspacePath, randomId) IN
         /\ sandboxConfig' = NewSandboxConfig(options)
         /\ log' = Append(log, auditLog("AGENT_INIT",
                       [ enableFileAccess |-> options.enableFileAccess,
                         enableCodeExecution |-> options.enableCodeExecution,
                         enableBashCommands |-> options.enableBashCommands,
                         allowedCommands |-> ParseAllowedCommands(options.allowedCommands),
                         maxTurns |-> DefaultMaxTurns ]))
         /\ IF w.error # NoError
            THEN pc' = "thrown" /\ error' = w.error /\ UNCHANGED workspacePath
            ELSE pc' = "mkdir" /\ workspacePath' = w.path /\ UNCHANGED error
    /\ UNCHANGED <<inputVars, cur, returnData, runs, workspace, envKey, fs, fsOps, pureVars>>

\* createSandboxedWorkspace has returned but its path is not put into the
\* SandboxConfig.
MkdirDone_PathNotSet(ok) ==
    /\ pc = "mkdir"
    /\ fsOps' = Append(fsOps, [op |-> "mkdir", path |-> workspacePath, ok |-> ok])
    /\ IF ok
       THEN LET ws == [ path |-> workspacePath, workflowId |-> WorkflowId,
                        executionId |-> ExecutionId ]
                lg1 == Append(log, LogEntry("info", "Created sandboxed workspace",
                                            [workspacePath |-> workspacePath]))
            IN /\ fs' = fs \cup {workspacePath}
               /\ workspace' = ws
               /\ sandboxConfig' = sandboxConfig
               /\ SetMain(LoopFrom(0, [Main EXCEPT !.lg = lg1, !.ws = ws]))
       ELSE /\ pc' = "thrown"
            /\ error' = ErrMkdir
            /\ UNCHANGED <<fs, workspace, sandboxConfig, cur, returnData, runs, log>>
    /\ UNCHANGED <<inputVars, workspacePath, envKey, pureVars>>

\* mkdir has ended: the workspace exists and the item loop starts, or the
\* call throws with no workspace.
MkdirDone(ok) ==
    /\ pc = "mkdir"
    /\ fsOps' = Append(fsOps, [op |-> "mkdir", path |-> workspacePath, ok |-> ok])
    /\ IF ok
       THEN LET ws == [ path |-> workspacePath, workflowId |-> WorkflowId,
                        executionId |-> ExecutionId ]
                lg1 == Append(log, LogEntry("info", "Created sandboxed workspace",
                                            [workspacePath |-> workspacePath]))
            IN /\ fs' = fs \cup {workspacePath}
               /\ workspace' = ws
               /\ sandboxConfig' = [sandboxConfig EXCEPT !.workspacePath = ws.path]
               /\ SetMain(LoopFrom(0, [Main EXCEPT !.lg = lg1, !.ws = ws]))
       ELSE /\ pc' = "thrown"
            /\ error' = ErrMkdir
            /\ UNCHANGED <<fs, workspace, sandboxConfig, cur, returnData, runs, log>>
    /\ UNCHANGED <<inputVars, workspacePath, envKey, pureVars>>

\* The dynamic import of the SDK has ended.
ImportDone(ok) ==
    /\ pc = "import"
    /\ IF ok
       THEN pc' = "cred" /\ UNCHANGED <<cur, returnData, error, runs, log>>
       ELSE SetMain(ItemCatch(cur, ErrSdk, Main))
    /\ UNCHANGED <<inputVars, execVars, pureVars>>

\* getCredentials has ended. With a key: the timer is set and executeAgent
\* starts, installs the key and asks the stream for its first message.
CredentialsDone(ok) ==
    /\ pc = "cred"
    /\ IF ok
       THEN /\ pc' = "race"
            /\ runs' = [runs EXCEPT ![cur].stream = "open", ![cur].exec = "pending"]
            /\ envKey' = ApiKey
            /\ UNCHANGED <<cur, returnData, error, log>>
       ELSE /\ SetMain(ItemCatch(cur, ErrCredentials, Main))
            /\ UNCHANGED envKey
    /\ UNCHANGED <<inputVars, sandboxConfig, workspacePath, workspace, fs, fsOps, pureVars>>

\* The stream of item i yields msg and the loop body runs on it.
StreamYield(i, msg) ==
    /\ runs[i].stream = "open"
    /\ TotalConsumed < MaxMsgs
    /\ LET r == ProcessMessage(i, msg, runs[i], sandboxConfig)
           m == [Main EXCEPT !.rs[i] = r.run, !.lg = @ \o r.lg]
       IN IF r.thrown = NoError
          THEN SetMain(m) /\ UNCHANGED envKey
          ELSE SetMain(EndExecuteAgent(i, r.thrown, m)) /\ envKey' = NoKey
    /\ UNCHANGED <<inputVars, sandboxConfig, workspacePath, workspace, fs, fsOps, pureVars>>

\* The stream of item i ends.
StreamEnd(i) ==
    /\ runs[i].stream = "open"
    /\ SetMain(EndExecuteAgent(i, NoError, Main))
    /\ envKey' = NoKey
    /\ UNCHANGED <<inputVars, sandboxConfig, workspacePath, workspace, fs, fsOps, pureVars>>

\* The stream of item i throws.
StreamThrow(i) ==
    /\ runs[i].stream = "open"
    /\ SetMain(EndExecuteAgent(i, ErrUpstream, Main))
    /\ envKey' = NoKey
    /\ UNCHANGED <<inputVars, sandboxConfig, workspacePath, workspace, fs, fsOps, pureVars>>

\* The timer fires but the call awaits executeAgent alone, not a race.
TimerFire_NotRaced ==
    /\ pc = "race"
    /\ UNCHANGED vars

\* The timer of the item whose race is awaited fires. (The timer of a race
\* that is already decided rejects a promise nobody awaits any more.)
TimerFire ==
    /\ pc = "race"
    /\ SetMain(ItemCatch(cur, ErrTimeout, Main))
    /\ UNCHANGED <<inputVars, execVars, pureVars>>

\* cleanupSandboxedWorkspace rethrowing the failure of rm after logging it.
cleanupSandboxedWorkspace_Rethrow(ws, ok, files) ==
    [ fs |-> IF ok THEN files \ {ws.path} ELSE files,
      op |-> [op |-> "rm", path |-> ws.path, ok |-> ok],
      entry |-> IF ok
                THEN LogEntry("info", "Cleaned up sandboxed workspace",
                              [workspacePath |-> ws.path])
                ELSE LogEntry("warn", "Failed to cleanup workspace",
                              [workspacePath |-> ws.path]),
      raised |-> IF ok THEN NoError ELSE Err("rm failed") ]

\* cleanupSandboxedWorkspace on the context ws, its rm (recursive, force)
\* succeeding or failing: the directories that exist after it, the completed
\* rm, the entry it logs and the error it raises (NoError: it returns).
cleanupSandboxedWorkspace(ws, ok, files) ==
    [ fs |-> IF ok THEN files \ {ws.path} ELSE files,
      op |-> [op |-> "rm", path |-> ws.path, ok |-> ok],
      entry |-> IF ok
                THEN LogEntry("info", "Cleaned up sandboxed workspace",
                              [workspacePath |-> ws.path])
                ELSE LogEntry("warn", "Failed to cleanup workspace",
                              [workspacePath |-> ws.path]),
      raised |-> NoError ]

\* The await of cleanupSandboxedWorkspace in the finally block has ended: the
\* call returns its records or throws the pending error; an error raised in
\* the finally block would take the place of either.
CleanupDone(ok) ==
    /\ pc = "cleanup"
    /\ LET r == cleanupSandboxedWorkspace(workspace, ok, fs) IN
       /\ fsOps' = Append(fsOps, r.op)
       /\ fs' = r.fs
       /\ log' = Append(log, r.entry)
       /\ error' = IF r.raised # NoError THEN r.raised ELSE error
       /\ pc' = IF r.raised = NoError /\ error = NoError THEN "returned" ELSE "thrown"
    /\ UNCHANGED <<inputVars, cur, returnData, runs, sandboxConfig, workspacePath,
                   workspace, envKey, pureVars>>

\* The largest number of teardowns of one context.
MaxTeardowns == 3

\* What an awaited call yields when it raised.
Raised == <<"raised">>

\* cleanupSandboxedWorkspace is called once more on the context of a call
\* that is over.
CleanupAgain(ok) ==
    /\ pc \in {"returned", "thrown"}
    /\ workspace # NoWorkspace
    /\ Len(fsOps) <= MaxTeardowns
    /\ LET r == cleanupSandboxedWorkspace(workspace, ok, fs) IN
       /\ fsOps' = Append(fsOps, r.op)
       /\ fs' = r.fs
       /\ log' = Append(log, r.entry)
       /\ call' = [fn |-> "cleanupSandboxedWorkspace"]
       /\ ret' = IF r.raised = NoError THEN Undefined ELSE Raised
    /\ UNCHANGED <<inputVars, pc, cur, returnData, error, runs, sandboxConfig, workspacePath,
                   workspace, envKey>>

\* ------------------------------------------------------------------- inputs

Prompts == { <<>>, <<"g", "o">> }

ItemLists == UNION { [1..n -> Prompts] : n \in 0..MaxItems }

CustomPaths ==
    { <<>>,
      <<"w", "s">>,
      <<"e", "t", "c">>,
      <<"/", "e", "t", "c", "/", "x">>,
      <<"/", "e", "t", "c", "x">>,
      <<"/", "r", "o", "o", "t">>,
      <<"/", "s", "y", "s", "/", "a">>,
      <<"/", "p", "r", "o", "c">>,
      <<"/", "d", "e", "v">>,
      <<"/", "b", "o", "o", "t", "/", "x">>,
      <<"/", "d", "a", "t", "a">>,
      <<"/", "d", "a", "t", "a", "/", ".", ".", "/", "e", "t", "c">> }

OptionSets ==
    [ enableFileAccess : {FALSE},
      enableCodeExecution : {TRUE},
      enableBashCommands : BOOLEAN,
      allowedCommands : { <<"n", "o", "d", "e", ",", " ", "g", "i", "t">> },
      workspacePath : CustomPaths,
      returnIntermediateSteps : BOOLEAN,
      enableStreaming : BOOLEAN ]

Text(chars) == [type |-> "text", text |-> chars]
ToolUse(tool, input) == [type |-> "tool_use", tool |-> tool, input |-> input, id |-> <<"t", "1">>]
Result(chars) == [type |-> "result", result |-> chars]

\* What a stream yields: text, a shell command on the allow list, a shell
\* command of the deny list, a shell tool whose payload has no command string,
\* a file tool, and final results.
StreamMessages ==
    { Text(<<"h", "i">>),
      ToolUse("bash", [command |-> <<"n", "o", "d", "e", " ", "x">>]),
      ToolUse("execute_command", [command |-> <<>>, cmd |-> <<"s", "u", "d", "o", " ", "x">>]),
      ToolUse("bash", [script |-> <<"s", "u", "d", "o", " ", "x">>]),
      ToolUse("write_file", [path |-> <<"/", "e", "t", "c", "/", "x">>]),
      Result(<<"d", "o", "n", "e">>),
      Result(<<"o", "k">>) }

\* ------------------------------------------------- specification: the call

PureIdle == call = NoCall /\ ret = NotReturned

Init ==
    /\ items \in ItemLists
    /\ options \in OptionSets
    /\ Len(items) = MaxItems => options.workspacePath = <<>>
    /\ continueOnFail \in BOOLEAN
    /\ pc = "idle"
    /\ cur = 0
    /\ sandboxConfig = NewSandboxConfig(options)
    /\ workspacePath = <<>>
    /\ workspace = NoWorkspace
    /\ returnData = <<>>
    /\ error = NoError
    /\ runs = [i \in ItemIndexes |-> NewRun]
    /\ envKey \in {NoKey, AmbientKey}
    /\ fs = {}
    /\ fsOps = <<>>
    /\ log = <<>>
    /\ PureIdle

Next ==
    \/ Start
    \/ \E ok \in BOOLEAN : MkdirDone(ok)
    \/ \E ok \in BOOLEAN : ImportDone(ok)
    \/ \E ok \in BOOLEAN : CredentialsDone(ok)
    \/ \E i \in ItemIndexes : \E msg \in StreamMessages : StreamYield(i, msg)
    \/ \E i \in ItemIndexes : StreamEnd(i)
    \/ \E i \in ItemIndexes : StreamThrow(i)
    \/ TimerFire
    \/ \E ok \in BOOLEAN : CleanupDone(ok)

Spec == Init /\ [][Next]_vars

\* The call under the scheduling the runtime guarantees: the call's own awaits
\* (mkdir, import, getCredentials, rm) complete and an armed timer fires. The
\* agent stream is external: it may stay silent for ever.
Fairness ==
    /\ WF_vars(Start)
    /\ WF_vars(\E ok \in BOOLEAN : MkdirDone(ok))
    /\ WF_vars(\E ok \in BOOLEAN : ImportDone(ok))
    /\ WF_vars(\E ok \in BOOLEAN : CredentialsDone(ok))
    /\ WF_vars(TimerFire)
    /\ WF_vars(\E ok \in BOOLEAN : CleanupDone(ok))

FairSpec == Init /\ [][Next]_vars /\ Fairness

\* ------------------------------------- specification: the call, torn down again

\* The call, and a caller that tears its context down again afterwards.
TeardownNext ==
    \/ Next
    \/ \E ok \in BOOLEAN : CleanupAgain(ok)

\* One item is enough to end a call in every way.
TeardownInit == Init /\ Len(items) <= 1

SpecTeardown == TeardownInit /\ [][TeardownNext]_vars

\* ------------------- specification: the call, in a process holding a credential

\* The call in a process that was started with ANTHROPIC_API_KEY set.
AmbientInit == Init /\ envKey = AmbientKey

SpecAmbient == AmbientInit /\ [][Next]_vars

\* ---------------------------------------------------------------- properties

Done == pc \in {"returned", "thrown"}

\* The completed calls of mkdir that succeeded, and of rm.
MkdirOk == { n \in 1..Len(fsOps) : fsOps[n].op = "mkdir" /\ fsOps[n].ok }
RmCalls == { n \in 1..Len(fsOps) : fsOps[n].op = "rm" }

Min(S) == CHOOSE x \in S : \A y \in S : x <= y

\* C1: once createSandboxedWorkspace has succeeded, whatever the items and
\* their outcomes and with or without continueOnFail, one workspace has been
\* created, cleanupSandboxedWorkspace runs on it once and no more, and it has
\* run by the time the call has returned or thrown.
C1_OneWorkspaceOneTeardown ==
    /\ Cardinality(MkdirOk) <= 1
    /\ Cardinality(RmCalls) <= 1
    /\ \A n \in RmCalls : workspace # NoWorkspace /\ fsOps[n].path = workspace.path
    /\ workspace # NoWorkspace =>
          /\ Cardinality(MkdirOk) = 1
          /\ \A n \in MkdirOk : fsOps[n].path = workspace.path
          /\ pc \in {"import", "cred", "race", "cleanup"} => RmCalls = {}
          /\ Done => Cardinality(RmCalls) = 1

\* C1 witness: a batch of two items, the first timed out and the second
\* succeeded, has returned after its one teardown.
C1_Witness ==
    /\ pc = "returned"
    /\ Len(items) = 2
    /\ runs[0].outcomeError = ErrTimeout
    /\ runs[1].outcome = "ok"
    /\ Cardinality(RmCalls) = 1

\* C2: the call always ends, so no item hangs on a silent stream; when it has
\* ended every item whose stream was opened has an outcome; the outcome of an
\* item whose stream has yielded nothing and has not ended is the timeout
\* error; and the call ends after the teardown of its workspace (the
\* directory is gone unless rm failed).
C2_TimeoutEndsSilentStream ==
    /\ <>Done
    /\ [](Done => \A i \in ItemIndexes :
                     runs[i].stream # "unopened" => runs[i].outcome # "none")
    /\ [](\A i \in ItemIndexes :
             runs[i].outcome # "none" /\ runs[i].stream = "open" /\ runs[i].consumed = 0
                => runs[i].outcomeError = ErrTimeout)
    /\ [](Done /\ workspace # NoWorkspace
             => /\ RmCalls # {}
                /\ \A n \in RmCalls : fsOps[n].ok => workspace.path \notin fs)

\* C2 witness: the call is over, its item's stream never yielded and is still
\* open, the item ended with the timeout error and the directory is gone.
C2_Witness ==
    /\ Done
    /\ Len(items) = 1
    /\ runs[0].stream = "open"
    /\ runs[0].consumed = 0
    /\ runs[0].outcomeError = ErrTimeout
    /\ fs = {}
    /\ RmCalls # {}

\* C3 (as claimed): when the call has returned or thrown, the credential it
\* installed is no longer in the slot.
C3_CredentialClearedAtExit == Done => envKey # ApiKey

\* C4 (as claimed): while a run's executeAgent is between its install and its
\* own clear, the slot holds the credential it installed.
C4_SingleWriter ==
    \A i \in ItemIndexes : runs[i].exec = "pending" => envKey = ApiKey

\* The command string a shell tool invocation carries: its input's command,
\* or else its cmd.
IsShellTool(msg) == msg.type = "tool_use" /\ msg.tool \in {"bash", "execute_command"}

CarriesCommand(msg, c) ==
    /\ IsShellTool(msg)
    /\ c # <<>>
    /\ \/ "command" \in DOMAIN msg.input /\ msg.input.command = c
       \/ /\ "command" \in DOMAIN msg.input => msg.input.command = <<>>
          /\ "cmd" \in DOMAIN msg.input
          /\ msg.input.cmd = c

CommandStrings ==
    { <<"n", "o", "d", "e", " ", "x">>, <<"s", "u", "d", "o", " ", "x">> }

\* C5: when the loop body of an item's run meets a shell tool invocation whose
\* command filterCommand rejects, the stream is closed and executeAgent rejects
\* with the blocked-command error naming that command; if the item's race is
\* still awaited, that error is the item's outcome and the record the item adds
\* to the output is its error record (none without continueOnFail, where the
\* error goes to the caller); a closed stream yields nothing more, and an item
\* whose executeAgent rejected never counts as a success.
C5_BlockedCommandAborts ==
    [][ /\ \A i \in ItemIndexes : \A msg \in StreamMessages : \A c \in CommandStrings :
             ( /\ StreamYield(i, msg)
               /\ CarriesCommand(msg, c)
               /\ filterCommand(c, sandboxConfig) = Null )
             => /\ runs'[i].stream = "closed"
                /\ runs'[i].exec = "rejected"
                /\ runs'[i].execError = ErrBlocked(c)
                /\ (pc = "race" /\ cur = i) =>
                      /\ runs'[i].outcome = "error"
                      /\ runs'[i].outcomeError = ErrBlocked(c)
                      /\ IF continueOnFail
                         THEN /\ Len(returnData') > Len(returnData)
                              /\ SubSeq(returnData', 1, Len(returnData) + 1)
                                   = Append(returnData,
                                            [error |-> ErrBlocked(c), itemIndex |-> i])
                         ELSE returnData' = returnData
                      /\ ~continueOnFail => pc' = "cleanup" /\ error' = ErrBlocked(c)
        /\ \A i \in ItemIndexes :
             runs[i].stream = "closed"
             => runs'[i].stream = "closed" /\ runs'[i].consumed = runs[i].consumed
        /\ \A i \in ItemIndexes :
             runs'[i].exec = "rejected" => runs'[i].outcome # "ok"
      ]_vars

\* C5 witness: with shell commands enabled, an item's first message was a
\* rejected command: the item ended with that error, the stream is closed
\* and the call could still take a message.
C5_Witness ==
    \E i \in ItemIndexes :
        /\ options.enableBashCommands
        /\ runs[i].consumed = 1
        /\ runs[i].stream = "closed"
        /\ runs[i].outcomeError = ErrBlocked(<<"s", "u", "d", "o", " ", "x">>)
        /\ TotalConsumed < MaxMsgs

\* C8 (as claimed): with shell commands disabled, every shell tool invocation
\* ends the item's run, whatever its payload.
C8_ShellToolAlwaysFiltered ==
    [][ \A i \in ItemIndexes : \A msg \in StreamMessages :
            (StreamYield(i, msg) /\ IsShellTool(msg) /\ ~sandboxConfig.enableBashCommands)
            => runs'[i].stream = "closed" /\ runs'[i].exec = "rejected"
      ]_vars

\* The capability class of a tool, and whether the policy disables it.
ClassDisabled(msg, config) ==
    /\ msg.type = "tool_use"
    /\ \/ msg.tool \in {"bash", "execute_command"} /\ ~config.enableBashCommands
       \/ msg.tool \in {"read_file", "write_file"} /\ ~config.enableFileAccess
       \/ msg.tool \in {"execute_code"} /\ ~config.enableCodeExecution

\* C9 (as claimed): a tool invocation of a capability class the policy
\* disables does not pass: the item's run ends at it.
C9_EveryToolUseDecided ==
    [][ \A i \in ItemIndexes : \A msg \in StreamMessages :
            (StreamYield(i, msg) /\ ClassDisabled(msg, sandboxConfig))
            => runs'[i].stream = "closed" /\ runs'[i].exec = "rejected"
      ]_vars

\* The records item i contributes to the output once its try block is over.
Contribution(i) ==
    IF runs[i].outcome = "error" THEN << [error |-> runs[i].outcomeError, itemIndex |-> i] >>
    ELSE IF runs[i].outcome = "none" THEN <<>>
    ELSE IF options.enableStreaming /\ options.returnIntermediateSteps
         THEN runs[i].agentMessages
         ELSE << [output |-> runs[i].finalResult, workspace |-> workspace.path] >>

RECURSIVE ContributionsUpTo(_)
ContributionsUpTo(n) ==
    IF n = 0 THEN <<>> ELSE ContributionsUpTo(n - 1) \o Contribution(n - 1)

ErrorRecords(i) ==
    { n \in 1..Len(returnData) :
        "itemIndex" \in DOMAIN returnData[n] /\ returnData[n].itemIndex = i }

\* C10: with continueOnFail, an item that ended in an error has exactly one
\* record {error, itemIndex} with its error and its index and no other item
\* has one; the call does not throw because of an item; the output is at all
\* times the items' records in item order; and when the call returns every
\* item has been processed.
C10_ErrorRecordPerFailedItem ==
    (continueOnFail /\ workspace # NoWorkspace) =>
        /\ \A i \in ItemIndexes :
              IF runs[i].outcome = "error"
              THEN /\ Cardinality(ErrorRecords(i)) = 1
                   /\ \A n \in ErrorRecords(i) :
                        returnData[n] = [error |-> runs[i].outcomeError, itemIndex |-> i]
              ELSE ErrorRecords(i) = {}
        /\ returnData = ContributionsUpTo(Len(items))
        /\ \A i \in ItemIndexes : \A j \in ItemIndexes :
              (i < j /\ runs[j].outcome # "none") => runs[i].outcome # "none"
        /\ pc # "thrown"
        /\ error = NoError
        /\ pc = "returned" => \A i \in ItemIndexes : runs[i].outcome # "none"

\* C10 witness: a returned batch whose first item timed out and whose second
\* item had a command blocked: two error records, in item order.
C10_Witness ==
    /\ continueOnFail
    /\ pc = "returned"
    /\ Len(items) = 2
    /\ runs[0].outcomeError = ErrTimeout
    /\ runs[1].outcomeError.message = "Command blocked by security filters: "
    /\ Len(returnData) = 2

\* The positions in the log of the audit events of one kind, and of one item.
AuditEvents(action) == { n \in 1..Len(log) : log[n].audit /\ log[n].action = action }

ItemEvents(action, i) == { n \in AuditEvents(action) : log[n].details.itemIndex = i }

\* C11: without continueOnFail, once an item has ended in an error the call is
\* in its finally block or has thrown, the pending or thrown error is that
\* item's error, the call never returns records, the output holds no error
\* record, and every later item is untouched: no AGENT_START event, stream
\* unopened, executeAgent not started.
C11_FirstErrorAborts ==
    ~continueOnFail =>
        /\ \A i \in ItemIndexes :
              runs[i].outcome = "error" =>
                 /\ pc \in {"cleanup", "thrown"}
                 /\ error = runs[i].outcomeError
                 /\ \A j \in ItemIndexes :
                       j > i => /\ ItemEvents("AGENT_START", j) = {}
                                /\ runs[j].stream = "unopened"
                                /\ runs[j].exec = "none"
                                /\ runs[j].outcome = "none"
        /\ \A n \in 1..Len(returnData) : "error" \notin DOMAIN returnData[n]
        /\ pc = "returned" => \A i \in ItemIndexes : runs[i].outcome = "ok"

\* C11 witness: without continueOnFail the first of two items with a prompt
\* failed on its stream after one message, and the call has thrown with the
\* second item never started.
C11_Witness ==
    /\ ~continueOnFail
    /\ pc = "thrown"
    /\ Len(items) = 2
    /\ items[2] # <<>>
    /\ runs[0].consumed = 1
    /\ runs[0].outcomeError = ErrUpstream
    /\ error = ErrUpstream
    /\ runs[1].stream = "unopened"

\* C12: an item whose prompt is empty has no AGENT_START event, its stream is
\* never opened and executeAgent, which installs the credential, is never
\* started for it; the call never waits on its import, credentials or race;
\* and its outcome, once it has one, is the missing-prompt error.
C12_EmptyPromptFailsFirst ==
    \A i \in ItemIndexes :
        items[i + 1] = <<>> =>
            /\ ItemEvents("AGENT_START", i) = {}
            /\ runs[i].stream = "unopened"
            /\ runs[i].consumed = 0
            /\ runs[i].exec = "none"
            /\ ~(cur = i /\ pc \in {"import", "cred", "race"})
            /\ runs[i].outcome # "ok"
            /\ runs[i].outcome = "error" => runs[i].outcomeError = ErrMissingPrompt
            /\ (cur > i /\ workspace # NoWorkspace) => runs[i].outcome = "error"

\* C12 witness: with continueOnFail the first item had no prompt and got the
\* missing-prompt error record, and the second item is streaming with the
\* credential installed.
C12_Witness ==
    /\ continueOnFail
    /\ Len(items) = 2
    /\ items[1] = <<>>
    /\ runs[0].outcomeError = ErrMissingPrompt
    /\ returnData = << [error |-> ErrMissingPrompt, itemIndex |-> 0] >>
    /\ runs[1].stream = "open"
    /\ envKey = ApiKey

\* The result field of the last final-result message among msgs, the empty
\* string when there is none.
RECURSIVE LastResult(_)
LastResult(msgs) ==
    IF msgs = <<>> THEN <<>>
    ELSE IF msgs[Len(msgs)].type = "result" THEN msgs[Len(msgs)].result
    ELSE LastResult(SubSeq(msgs, 1, Len(msgs) - 1))

\* What a successful item is to add to the output, given the messages its
\* stream yielded.
SuccessRecords(msgs) ==
    IF options.enableStreaming /\ options.returnIntermediateSteps
    THEN [k \in 1..Len(msgs) |-> convertAgentMessageToN8nData(msgs[k], TRUE)]
    ELSE << [output |-> LastResult(msgs), workspace |-> workspace.path] >>

\* C13: the step in which an item succeeds adds to the output, right after
\* what was there, the translation of every message its stream yielded, in
\* stream order, when enableStreaming and returnIntermediateSteps are both
\* set, and otherwise the one record {output, workspace} whose output is the
\* result of the last final-result message (empty when the stream had none)
\* and whose workspace is the batch's workspace path; whatever follows in that
\* step are error records of later items.
C13_OutputModes ==
    [][ \A i \in ItemIndexes :
            (runs[i].outcome = "none" /\ runs'[i].outcome = "ok") =>
                LET exp == SuccessRecords(runs'[i].yielded)
                    from == Len(returnData)
                IN /\ Len(returnData') >= from + Len(exp)
                   /\ SubSeq(returnData', 1, from) = returnData
                   /\ SubSeq(returnData', from + 1, from + Len(exp)) = exp
                   /\ \A n \in (from + Len(exp) + 1)..Len(returnData') :
                         /\ "itemIndex" \in DOMAIN returnData'[n]
                         /\ returnData'[n].itemIndex > i
      ]_vars

\* C13 witness: in summary mode with streaming on, an item whose stream yielded
\* two final results succeeded with the one record that holds the second.
C13_Witness ==
    \E i \in ItemIndexes :
        /\ options.enableStreaming
        /\ ~options.returnIntermediateSteps
        /\ runs[i].outcome = "ok"
        /\ runs[i].yielded = << Result(<<"d", "o", "n", "e">>), Result(<<"o", "k">>) >>
        /\ returnData = << [output |-> <<"o", "k">>, workspace |-> workspace.path] >>

\* The tool invocations among the messages a stream yielded, in order, and the
\* details of the TOOL_USE events of item i, in log order.
IsToolUse(msg) == msg.type = "tool_use"

ToolMessages(msgs) == SelectSeq(msgs, IsToolUse)

ToolEventDetails(i) ==
    LET at == ItemEvents("TOOL_USE", i)
        IsAt(n) == n \in at
        idx == SelectSeq([n \in 1..Len(log) |-> n], IsAt)
    IN [k \in 1..Len(idx) |-> log[idx[k]].details]

\* The TOOL_USE events of item i whose input carries the command c, and the
\* warnings that item i had c blocked.
EventsRecording(i, c) ==
    { n \in ItemEvents("TOOL_USE", i) :
        CarriesCommand([ type |-> "tool_use", tool |-> log[n].details.tool,
                         input |-> log[n].details.toolInput ], c) }

BlockedWarnings(i, c) ==
    { n \in 1..Len(log) :
        /\ ~log[n].audit
        /\ log[n].level = "warn"
        /\ log[n].details = [command |-> c, itemIndex |-> i] }

Max(S) == CHOOSE x \in S : \A y \in S : x >= y

\* C14: the TOOL_USE events of an item are, in order, the tool invocations its
\* stream has yielded, each with its tool name and input; and when the item's
\* run was aborted on a rejected command, one audit event records that
\* command: the item's last TOOL_USE event, which is in the log before the
\* warning of the rejection, the last thing the run wrote.
C14_ToolUseAudited ==
    \A i \in ItemIndexes :
        LET tools == ToolMessages(runs[i].yielded)
            c == runs[i].execError.command
        IN /\ ToolEventDetails(i)
                = [ k \in 1..Len(tools) |->
                      [itemIndex |-> i, tool |-> tools[k].tool, toolInput |-> tools[k].input] ]
           /\ c # <<>> =>
                 /\ runs[i].stream = "closed"
                 /\ Cardinality(EventsRecording(i, c)) = 1
                 /\ EventsRecording(i, c) = {Max(ItemEvents("TOOL_USE", i))}
                 /\ Cardinality(BlockedWarnings(i, c)) = 1
                 /\ \A n \in EventsRecording(i, c) : \A w \in BlockedWarnings(i, c) : w = n + 1

\* C14 witness: an item's stream yielded a shell invocation that passed and
\* then one that was rejected: two TOOL_USE events, the second recording the
\* rejected command.
C14_Witness ==
    \E i \in ItemIndexes :
        /\ runs[i].execError = ErrBlocked(<<"s", "u", "d", "o", " ", "x">>)
        /\ Len(runs[i].yielded) = 2
        /\ runs[i].yielded[1] = ToolUse("bash", [command |-> <<"n", "o", "d", "e", " ", "x">>])
        /\ Cardinality(ItemEvents("TOOL_USE", i)) = 2

\* Item i has passed its prompt check: the call is at one of its awaits or
\* the item has ended, and its prompt is not empty.
PassedPromptCheck(i) ==
    /\ items[i + 1] # <<>>
    /\ \/ runs[i].outcome # "none"
       \/ cur = i /\ pc \in {"import", "cred", "race"}

\* C15: nothing is logged before the call starts; from then on the log holds
\* one AGENT_INIT event and it is its first entry; every item has one
\* AGENT_START event if it has passed its prompt check and none otherwise;
\* and every TOOL_USE and AGENT_COMPLETE event of an item comes after the
\* item's AGENT_START event.
C15_AuditOrder ==
    /\ pc = "idle" => log = <<>>
    /\ pc # "idle" => AuditEvents("AGENT_INIT") = {1}
    /\ \A i \in ItemIndexes :
          /\ Cardinality(ItemEvents("AGENT_START", i)) = IF PassedPromptCheck(i) THEN 1 ELSE 0
          /\ \A n \in ItemEvents("TOOL_USE", i) \cup ItemEvents("AGENT_COMPLETE", i) :
                \E st \in ItemEvents("AGENT_START", i) : st < n

\* C15 witness: a returned batch of two items with prompts; the first had a
\* tool invocation and a final result, and both have their AGENT_START event.
C15_Witness ==
    /\ pc = "returned"
    /\ Len(items) = 2
    /\ ItemEvents("TOOL_USE", 0) # {}
    /\ ItemEvents("AGENT_COMPLETE", 0) # {}
    /\ ItemEvents("AGENT_START", 0) # {}
    /\ ItemEvents("AGENT_START", 1) # {}

\* The sensitive directories, and the ways createSandboxedWorkspace rejects a
\* custom path.
SensitiveDirectories ==
    { <<"/", "e", "t", "c">>, <<"/", "r", "o", "o", "t">>, <<"/", "s", "y", "s">>,
      <<"/", "p", "r", "o", "c">>, <<"/", "d", "e", "v">>, <<"/", "b", "o", "o", "t">> }

BeginsWith(s, prefix) == Len(s) >= Len(prefix) /\ SubSeq(s, 1, Len(prefix)) = prefix

NotAbsolute(path) == path # <<>> /\ path[1] # "/"

InSensitiveDirectory(path) == \E d \in SensitiveDirectories : BeginsWith(path, d)

\* C16: a call whose custom workspace path is not absolute, or begins with a
\* sensitive directory, throws the matching error as soon as it starts:
\* no mkdir and no rm is ever run, no directory and no workspace context
\* exist, and no item is started.
C16_CustomPathRejected ==
    LET path == options.workspacePath IN
    (pc # "idle" /\ (NotAbsolute(path) \/ InSensitiveDirectory(path))) =>
        /\ pc = "thrown"
        /\ error = IF NotAbsolute(path) THEN ErrNotAbsolute ELSE ErrSensitive
        /\ fsOps = <<>>
        /\ fs = {}
        /\ workspace = NoWorkspace
        /\ returnData = <<>>
        /\ AuditEvents("AGENT_START") = {}
        /\ \A i \in ItemIndexes : runs[i] = NewRun

\* C16 witness: a call with one item and a custom path under /etc has thrown
\* the sensitive-directory error.
C16_Witness ==
    /\ options.workspacePath = <<"/", "e", "t", "c", "/", "x">>
    /\ Len(items) = 1
    /\ items[1] # <<>>
    /\ pc = "thrown"
    /\ error = ErrSensitive

\* A step in which a call of cleanupSandboxedWorkspace ends: one more rm done.
TeardownStep ==
    /\ Len(fsOps') = Len(fsOps) + 1
    /\ fsOps'[Len(fsOps')].op = "rm"

\* C17: a teardown that ends inside the call leaves the pending error and the
\* records as they were, and the call then returns if no error was pending and
\* throws that error otherwise, whether rm failed or not; a teardown called
\* again after the call returns normally and changes neither the call's
\* outcome nor its records; a teardown whose rm fails, or whose directory is
\* already gone, leaves the filesystem as it was; one whose rm succeeds leaves
\* the directory absent.
C17_TeardownNeverRaises ==
    [][ TeardownStep =>
          LET rm == fsOps'[Len(fsOps')] IN
          /\ rm.path = workspace.path
          /\ error' = error
          /\ returnData' = returnData
          /\ pc = "cleanup" => pc' = IF error = NoError THEN "returned" ELSE "thrown"
          /\ pc # "cleanup" => pc' = pc /\ ret' = Undefined
          /\ (~rm.ok \/ workspace.path \notin fs) => fs' = fs
          /\ rm.ok => workspace.path \notin fs'
      ]_vars

\* C17 witness: a call threw its item's timeout error although the rm of its
\* teardown failed; a second teardown removed the directory and a third one,
\* on the removed directory, returned with nothing left to remove.
C17_Witness ==
    /\ pc = "thrown"
    /\ error = ErrTimeout
    /\ Len(fsOps) = 4
    /\ ~fsOps[2].ok
    /\ fsOps[3].ok
    /\ fsOps[4].op = "rm"
    /\ fs = {}
    /\ ret = Undefined

\* Item i has ended with the timeout error: the timer won its race.
TimedOut(i) == runs[i].outcome = "error" /\ runs[i].outcomeError = ErrTimeout

\* C23 (as claimed): once the timer has won the race of an item, no further
\* message of the item's stream is consumed and nothing more is logged for
\* the item.
C23_TimedOutStreamCancelled ==
    [][ \A i \in ItemIndexes :
            TimedOut(i) =>
                /\ runs'[i].consumed = runs[i].consumed
                /\ \A n \in (Len(log) + 1)..Len(log') :
                      "itemIndex" \in DOMAIN log'[n].details => log'[n].details.itemIndex # i
      ]_vars

\* C24 (as claimed): from its construction on, no field of the SandboxConfig
\* changes.
C24_PolicyNeverChanges ==
    [][ pc # "idle" => sandboxConfig' = sandboxConfig ]_vars

\* C24 (amended): from its construction on, the capability booleans, the
\* allow list and the deadline of the SandboxConfig never change; its
\* workspace path is assigned in one step only, the one in which the workspace
\* is created, where it becomes the path of that workspace; no other step,
\* and so no processing of a message and no call of filterCommand, changes
\* any field.
C24_PolicyFixedOnceWorkspaceSet ==
    [][ pc # "idle" =>
          IF workspace = NoWorkspace /\ workspace' # NoWorkspace
          THEN sandboxConfig' = [sandboxConfig EXCEPT !.workspacePath = workspace'.path]
          ELSE sandboxConfig' = sandboxConfig
      ]_vars

\* C24 witness: an item's stream has yielded a shell command that
\* filterCommand let through, and the SandboxConfig holds the workspace path
\* and the options it was constructed from.
C24_Witness ==
    /\ pc = "race"
    /\ runs[cur].yielded = << ToolUse("bash", [command |-> <<"n", "o", "d", "e", " ", "x">>]) >>
    /\ runs[cur].stream = "open"
    /\ sandboxConfig.enableBashCommands
    /\ sandboxConfig = [NewSandboxConfig(options) EXCEPT !.workspacePath = workspace.path]

\* What item i has put into the output: nothing before it ends, one error
\* record if it ended in an error under continueOnFail (nothing without, where
\* the call throws), and the records of its success otherwise.
ItemRecords(i) ==
    IF runs[i].outcome = "none" THEN <<>>
    ELSE IF runs[i].outcome = "error"
         THEN IF continueOnFail
              THEN << [error |-> runs[i].outcomeError, itemIndex |-> i] >>
              ELSE <<>>
    ELSE SuccessRecords(runs[i].yielded)

RECURSIVE RecordsUpTo(_)
RecordsUpTo(n) == IF n = 0 THEN <<>> ELSE RecordsUpTo(n - 1) \o ItemRecords(n - 1)

\* C25: the output is, item after item, the success records of the items that
\* succeeded and the one error record of each item that failed: an item that
\* ended in an error has no other record in the output than its error record,
\* whatever its stream had yielded and been translated into before the error.
C25_NoMixedRecords ==
    /\ returnData = RecordsUpTo(Len(items))
    /\ \A i \in ItemIndexes :
          runs[i].outcome = "error" =>
             Cardinality(ErrorRecords(i)) = IF continueOnFail THEN 1 ELSE 0

\* C25 witness: in streaming mode with detail an item's stream yielded a text
\* that was translated and kept, then failed; the output holds the item's
\* error record alone.
C25_Witness ==
    /\ continueOnFail
    /\ options.enableStreaming
    /\ options.returnIntermediateSteps
    /\ Len(items) = 1
    /\ runs[0].agentMessages = << [type |-> "text", text |-> <<"h", "i">>] >>
    /\ runs[0].outcomeError = ErrUpstream
    /\ returnData = << [error |-> ErrUpstream, itemIndex |-> 0] >>

\* C26 (as claimed): an item has at most one AGENT_COMPLETE event, and an item
\* that has one and has ended has ended successfully.
C26_CompleteOnceAndOnlyOnSuccess ==
    \A i \in ItemIndexes :
        LET n == Cardinality(ItemEvents("AGENT_COMPLETE", i)) IN
        /\ n <= 1
        /\ (n > 0 /\ runs[i].outcome # "none") => runs[i].outcome = "ok"

\* path lies inside directory dir: it is dir or below it.
InsideDirectory(path, dir) == path = dir \/ BeginsWith(path, dir \o <<"/">>)

\* C27 (as claimed): no directory that mkdir has created lies inside a
\* sensitive directory.
C27_CreatedOutsideSensitive ==
    \A n \in 1..Len(fsOps) :
        (fsOps[n].op = "mkdir" /\ fsOps[n].ok) =>
            \A d \in SensitiveDirectories : ~InsideDirectory(fsOps[n].path, d)

\* C29 (as claimed), for a call in a process that was started with an ambient
\* value in the slot, so that the first install finds that value there and a
\* run that restores what it found leaves it there for the next: whenever the
\* stream of an item has ended and no other stream is open, the slot holds
\* the ambient value.
C29_AmbientCredentialRestored ==
    \A i \in ItemIndexes :
        ( /\ runs[i].stream = "closed"
          /\ \A j \in ItemIndexes : runs[j].stream # "open" ) =>
             envKey = AmbientKey

\* ------------------------------------------- inputs of the policy functions

\* The longest command is MaxParts fragments long.
MaxParts == 3

Fragments ==
    { <<"n", "o", "d", "e">>,
      <<"N", "o", "d", "e">>,
      <<"g", "i", "t">>,
      <<" ">>,
      <<"\t">>,
      <<"\n">>,
      <<"x">>,
      <<"/">>,
      <<"r", "m", " ", "-", "r", "f">>,
      <<"S", "u", "d", "o">>,
      <<"c", "h", "m", "o", "d", " ", "7", "7", "7">>,
      <<"c", "u", "r", "l">>,
      <<"w", "g", "e", "t">>,
      <<"|", "s", "h">>,
      <<">", "/", "d", "e", "v", "/", "s", "d", "a">>,
      <<"m", "k", "f", "s">>,
      <<"d", "d", " ", "i", "f", "=">>,
      <<":", "(", ")", "{", " ", ":", "|", ":", "&", " ", "}", ";", ":">> }

RECURSIVE Concat(_)
Concat(parts) == IF parts = <<>> THEN <<>> ELSE Head(parts) \o Concat(Tail(parts))

Commands ==
    { Concat(parts) : parts \in UNION { [1..n -> Fragments] : n \in 0..MaxParts } }

AllowLists ==
    { << <<"n", "o", "d", "e">> >>,
      << <<"n", "o", "d", "e">>, <<"g", "i", "t">>, <<"r", "m">>, <<"c", "u", "r", "l">> >>,
      << <<"n", "o", "d", "e">>, <<>> >> }

Policies ==
    [ workspacePath : {<<>>},
      enableFileAccess : {TRUE},
      enableCodeExecution : {TRUE},
      enableBashCommands : BOOLEAN,
      allowedCommands : AllowLists,
      timeout : {DefaultTimeout} ]

\* --------------------------------------------------- specification: filter

FilterCalls == [fn : {"filterCommand"}, command : Commands, config : Policies]

\* The call of claudeCodeAgentExecute never starts.
CallIdle ==
    /\ items = <<>>
    /\ options \in { o \in OptionSets : /\ o.enableBashCommands
                                       /\ o.workspacePath = <<>>
                                       /\ o.returnIntermediateSteps /\ o.enableStreaming }
    /\ continueOnFail = FALSE
    /\ pc = "off"
    /\ cur = 0
    /\ sandboxConfig = NewSandboxConfig(options)
    /\ workspacePath = <<>>
    /\ workspace = NoWorkspace
    /\ returnData = <<>>
    /\ error = NoError
    /\ runs = <<>>
    /\ envKey = NoKey
    /\ fs = {}
    /\ fsOps = <<>>
    /\ log = <<>>

callVars == <<inputVars, mainVars, execVars>>

FilterInit ==
    /\ call \in FilterCalls
    /\ ret = NotReturned
    /\ CallIdle

CallFilterCommand ==
    /\ call.fn = "filterCommand"
    /\ ret = NotReturned
    /\ ret' = filterCommand(call.command, call.config)
    /\ UNCHANGED <<call, callVars>>

FilterNext == CallFilterCommand

SpecFilter == FilterInit /\ [][FilterNext]_vars

\* ------------------------------- specification: validatePath and translator

\* The longest candidate path has MaxSegs segments.
MaxSegs == 3

PathSegments ==
    { <<"a">>, <<"w", "s">>, <<".">>, <<".", ".">>, <<".", ".", "b">> }

RelativePaths ==
    { JoinWith(segs, <<"/">>) : segs \in UNION { [1..n -> PathSegments] : n \in 0..MaxSegs } }

CandidatePaths == RelativePaths \cup { <<"/">> \o rel : rel \in RelativePaths }

WorkspaceDirs == { <<"/", "w", "s">>, <<"/", "w", "s", "/", "a">> }

WorkingDirs == { <<"/">>, <<"/", "w", "s">>, <<"/", "w", "s", "/", "a">> }

ValidateCalls ==
    [ fn : {"validatePath"}, filePath : CandidatePaths, workspacePath : WorkspaceDirs,
      cwd : WorkingDirs, returned : {FALSE} ]

\* The messages of the streams, a tool result, a message of a type the
\* translator does not know, an empty final result and one without a result.
AgentMessages ==
    StreamMessages
        \cup { [type |-> "tool_result", tool_use_id |-> <<"t", "1">>, content |-> <<"o", "k">>],
               [type |-> "system", subtype |-> <<"i", "n", "i", "t">>],
               Result(<<>>),
               [type |-> "result", subtype |-> <<"e", "r", "r", "o", "r">>] }

ConvertCalls ==
    [ fn : {"convertAgentMessageToN8nData"}, message : AgentMessages,
      returnIntermediateSteps : BOOLEAN, returned : {FALSE} ]

\* Process environments: the inherited variables, with or without the
\* installed credential.
ProcessEnvs ==
    { [PATH |-> <<"/", "o", "p", "t", "/", "e", "v", "i", "l">>],
      [ PATH |-> <<"/", "o", "p", "t", "/", "e", "v", "i", "l">>,
        ANTHROPIC_API_KEY |-> <<"s", "k", "-", "1">> ],
      [ HOME |-> <<"/", "r", "o", "o", "t">>, SHELL |-> <<"/", "b", "i", "n", "/", "z", "s", "h">>,
        ANTHROPIC_API_KEY |-> <<"s", "k", "-", "1">>, LD_PRELOAD |-> <<"x">> ] }

WorkspaceContexts ==
    { [path |-> WorkspacePathFor(customPath, randomId).path, workflowId |-> WorkflowId,
       executionId |-> ExecutionId] :
        customPath \in {<<>>, <<"/", "d", "a", "t", "a">>}, randomId \in RandomIds }

EnvironmentCalls ==
    [ fn : {"createSandboxedEnvironment"}, workspace : WorkspaceContexts, env : ProcessEnvs,
      returned : {FALSE} ]

PureInit ==
    /\ call \in ValidateCalls \cup ConvertCalls \cup EnvironmentCalls
    /\ ret = NotReturned
    /\ CallIdle

CallValidatePath ==
    /\ call.fn = "validatePath"
    /\ ~call.returned
    /\ ret' = validatePath(call.filePath, call.workspacePath, call.cwd)
    /\ call' = [call EXCEPT !.returned = TRUE]
    /\ UNCHANGED callVars

CallConvert ==
    /\ call.fn = "convertAgentMessageToN8nData"
    /\ ~call.returned
    /\ ret' = convertAgentMessageToN8nData(call.message, call.returnIntermediateSteps)
    /\ call' = [call EXCEPT !.returned = TRUE]
    /\ UNCHANGED callVars

CallCreateEnvironment ==
    /\ call.fn = "createSandboxedEnvironment"
    /\ ~call.returned
    /\ ret' = createSandboxedEnvironment(call.workspace, call.env)
    /\ call' = [call EXCEPT !.returned = TRUE]
    /\ UNCHANGED callVars

PureNext ==
    \/ CallValidatePath
    \/ CallConvert
    \/ CallCreateEnvironment

SpecPure == PureInit /\ [][PureNext]_vars

\* --------------------------------------- properties of the policy functions

\* w occurs in s at position i, letters compared without case.
HasAt(s, i, w) ==
    /\ i >= 1
    /\ i + Len(w) - 1 <= Len(s)
    /\ \A k \in 1..Len(w) : Lower(s[i + k - 1]) = w[k]

Contains(s, w) == \E i \in 1..Len(s) : HasAt(s, i, w)

SpacesOnly(s, a, b) == \A k \in a..b : IsSpace(s[k])

OneLine(s, a, b) == \A k \in a..b : s[k] # "\n"

\* w1, one or more (zero or more when min = 0) whitespace characters, w2.
SpacedPair(s, w1, w2, min) ==
    \E i \in 1..Len(s) :
        /\ HasAt(s, i, w1)
        /\ \E j \in (i + Len(w1) + min)..Len(s) :
              SpacesOnly(s, i + Len(w1), j - 1) /\ HasAt(s, j, w2)

\* fetcher, then on the same line a bar, then on the same line sh.
PipedToShell(s, fetcher) ==
    \E i \in 1..Len(s) :
        /\ HasAt(s, i, fetcher)
        /\ \E j \in (i + Len(fetcher))..Len(s) :
              /\ s[j] = "|"
              /\ \E k \in (j + 1)..Len(s) :
                    HasAt(s, k, <<"s", "h">>) /\ OneLine(s, i + Len(fetcher), k - 1)

\* The deny list, stated on the command's text.
DenyListed(s) ==
    \/ \E i \in 1..Len(s) :
          /\ HasAt(s, i, <<"r", "m">>)
          /\ \E j \in (i + 3)..Len(s) :
                /\ SpacesOnly(s, i + 2, j - 1)
                /\ HasAt(s, j, <<"-", "r", "f">>)
                /\ \E k \in (j + 4)..Len(s) : SpacesOnly(s, j + 3, k - 1) /\ s[k] = "/"
    \/ Contains(s, <<"s", "u", "d", "o">>)
    \/ SpacedPair(s, <<"c", "h", "m", "o", "d">>, <<"7", "7", "7">>, 1)
    \/ PipedToShell(s, <<"c", "u", "r", "l">>)
    \/ PipedToShell(s, <<"w", "g", "e", "t">>)
    \/ SpacedPair(s, <<">">>, <<"/", "d", "e", "v", "/", "s", "d", "a">>, 0)
    \/ Contains(s, <<"m", "k", "f", "s">>)
    \/ SpacedPair(s, <<"d", "d">>, <<"i", "f", "=">>, 1)
    \/ Contains(s, <<":", "{", " ", ":">>)
    \/ Contains(s, <<":", "&", " ", "}", ";", ":">>)

\* The first whitespace-delimited token of s, empty when s has none.
FirstWord(s) ==
    LET word == { i \in 1..Len(s) : ~IsSpace(s[i]) } IN
    IF word = {} THEN <<>>
    ELSE LET a == Min(word)
             b == Min({ j \in a..Len(s) : j = Len(s) \/ IsSpace(s[j + 1]) })
         IN SubSeq(s, a, b)

OnAllowList(word, allowedCommands) ==
    word \in { allowedCommands[n] : n \in 1..Len(allowedCommands) }

\* C6: a command that is on the deny list gets null from filterCommand,
\* whatever the allow list, also when its base command is on the allow list.
C6_DenyPrecedence ==
    (ret # NotReturned /\ DenyListed(call.command)) => ret = Null

\* C6 witness: shell commands are enabled, the base command is on the allow
\* list, the command is on the deny list and filterCommand returned null.
C6_Witness ==
    /\ ret = Null
    /\ call.config.enableBashCommands
    /\ OnAllowList(FirstWord(call.command), call.config.allowedCommands)
    /\ DenyListed(call.command)

\* C7: filterCommand returns a non-null value exactly when shell commands are
\* enabled, the command is not on the deny list and its first token is, as it
\* stands, on the allow list; and a non-null result is the command itself.
C7_FilterCommandExact ==
    ret # NotReturned =>
        /\ ret # Null <=>
              /\ call.config.enableBashCommands
              /\ ~DenyListed(call.command)
              /\ OnAllowList(FirstWord(call.command), call.config.allowedCommands)
        /\ ret # Null => ret = call.command

\* C7 witness: a command with whitespace around its allow-listed base command
\* was returned as it was given.
C7_Witness ==
    /\ ret # NotReturned
    /\ ret # Null
    /\ ret = call.command
    /\ call.command # <<>>
    /\ IsSpace(call.command[1])
    /\ Len(call.command) > Len(FirstWord(call.command)) + 1

\* --------------------------- properties of validatePath and the translator

IsAbsolute(path) == path # <<>> /\ path[1] = "/"

\* The canonical form of the candidate lies at or below that of the workspace:
\* the segments of the workspace are the first segments of the candidate.
AtOrBelow(filePath, workspaceDir, cwd) ==
    LET p == Segments(ResolveFrom(cwd, filePath))
        w == Segments(ResolveFrom(cwd, workspaceDir))
    IN Len(w) <= Len(p) /\ SubSeq(p, 1, Len(w)) = w

ValidatePathReturned == call.fn = "validatePath" /\ call.returned

\* C28 (as claimed): for a relative candidate the result of validatePath is
\* the same in every working directory, and it is true if the candidate has
\* no parent-directory segment.
C28_IndependentOfWorkingDirectory ==
    (ValidatePathReturned /\ ~IsAbsolute(call.filePath)) =>
        /\ \A cwd \in WorkingDirs :
              validatePath(call.filePath, call.workspacePath, cwd) = ret
        /\ (\A n \in 1..Len(SplitChar(call.filePath, "/")) :
                SplitChar(call.filePath, "/")[n] # <<".", ".">>) => ret

\* C18 (as claimed): for an absolute candidate, validatePath is true exactly
\* when the candidate canonicalizes to a location at or below the workspace
\* and its raw form is not an absolute path outside the workspace.
C18_ContainedIffAtOrBelow ==
    (ValidatePathReturned /\ IsAbsolute(call.filePath)) =>
        LET below == AtOrBelow(call.filePath, call.workspacePath, call.cwd) IN
        ret <=> (below /\ ~(IsAbsolute(call.filePath) /\ ~below))

\* C18 (amended): for an absolute candidate, validatePath is true exactly when
\* the candidate canonicalizes to a location at or below the workspace and
\* its raw form is not an absolute path: it is false, wherever the candidate
\* lies.
C18_AbsoluteNeverContained ==
    (ValidatePathReturned /\ IsAbsolute(call.filePath)) =>
        /\ ret <=> ( /\ AtOrBelow(call.filePath, call.workspacePath, call.cwd)
                     /\ ~IsAbsolute(call.filePath) )
        /\ ret = FALSE

\* C18 witness: validatePath returned false for an absolute candidate two
\* levels below the workspace.
C18_Witness ==
    /\ ValidatePathReturned
    /\ call.filePath = <<"/", "w", "s", "/", "a", "/", "a">>
    /\ call.workspacePath = <<"/", "w", "s">>
    /\ AtOrBelow(call.filePath, call.workspacePath, call.cwd)
    /\ ret = FALSE

\* C19: validatePath returns false for every candidate whose raw form is
\* absolute, inside the workspace or not, and for every candidate whose
\* canonical form is not at or below the workspace, which is when the relative
\* path from the workspace to it begins with a parent-directory segment.
C19_AbsoluteAndClimbingRejected ==
    ValidatePathReturned =>
        /\ IsAbsolute(call.filePath) => ret = FALSE
        /\ ~AtOrBelow(call.filePath, call.workspacePath, call.cwd) => ret = FALSE

\* C19 witness: validatePath returned false for a relative candidate that
\* enters the workspace's own subdirectory and then climbs out of the workspace.
C19_Witness ==
    /\ ValidatePathReturned
    /\ call.filePath = <<"a", "/", ".", ".", "/", ".", ".">>
    /\ call.workspacePath = <<"/", "w", "s">>
    /\ call.cwd = <<"/", "w", "s">>
    /\ ~AtOrBelow(call.filePath, call.workspacePath, call.cwd)
    /\ ret = FALSE

ConvertReturned == call.fn = "convertAgentMessageToN8nData" /\ call.returned

\* C20: whatever includeDetail is, the record convertAgentMessageToN8nData
\* makes of a final-result message has the type result and, as its output,
\* the result of the message (undefined when the message has none).
C20_ResultRoundTrip ==
    (ConvertReturned /\ call.message.type = "result") =>
        /\ ret.type = "result"
        /\ "output" \in DOMAIN ret
        /\ ret.output = IF "result" \in DOMAIN call.message THEN call.message.result
                        ELSE Undefined

\* C20 witness: without detail, the final result "done" was translated into a
\* record with that output.
C20_Witness ==
    /\ ConvertReturned
    /\ ~call.returnIntermediateSteps
    /\ call.message = Result(<<"d", "o", "n", "e">>)
    /\ ret = [type |-> "result", output |-> <<"d", "o", "n", "e">>]

\* C21: the record's type is the message's type; the record of a tool_use
\* message has the fields tool, toolInput and toolCallId, and the record of a
\* tool_result message the fields toolCallId and toolResult, holding what the
\* message holds, exactly when includeDetail is set, and has none of the tool
\* fields otherwise; and the record of a message of any other kind than text,
\* tool_use, tool_result and result carries the message itself.
C21_TranslatorFields ==
    ConvertReturned =>
        LET msg == call.message
            toolFields == {"tool", "toolInput", "toolCallId", "toolResult"}
        IN /\ ret.type = msg.type
           /\ msg.type = "tool_use" =>
                 IF call.returnIntermediateSteps
                 THEN /\ DOMAIN ret \cap toolFields = {"tool", "toolInput", "toolCallId"}
                      /\ ret.tool = msg.tool
                      /\ ret.toolInput = msg.input
                      /\ ret.toolCallId = msg.id
                 ELSE DOMAIN ret \cap toolFields = {}
           /\ msg.type = "tool_result" =>
                 IF call.returnIntermediateSteps
                 THEN /\ DOMAIN ret \cap toolFields = {"toolCallId", "toolResult"}
                      /\ ret.toolCallId = msg.tool_use_id
                      /\ ret.toolResult = msg.content
                 ELSE DOMAIN ret \cap toolFields = {}
           /\ msg.type \notin {"text", "tool_use", "tool_result", "result"} =>
                 /\ "message" \in DOMAIN ret
                 /\ ret.message = msg

\* C21 witness: without detail a tool invocation was translated into a record
\* that holds its type and nothing else.
C21_Witness ==
    /\ ConvertReturned
    /\ ~call.returnIntermediateSteps
    /\ call.message = ToolUse("bash", [command |-> <<"n", "o", "d", "e", " ", "x">>])
    /\ ret = [type |-> "tool_use"]

EnvironmentReturned == call.fn = "createSandboxedEnvironment" /\ call.returned

\* C22: the environment createSandboxedEnvironment returns has the variables
\* HOME, PATH, WORKSPACE, SHELL and USER and no other, HOME and WORKSPACE are
\* the workspace path, no variable has the value the process environment gives
\* it, and the result is what the function returns for the same context under
\* every other process environment.
C22_EnvironmentSanitized ==
    EnvironmentReturned =>
        /\ DOMAIN ret = {"HOME", "PATH", "WORKSPACE", "SHELL", "USER"}
        /\ ret.HOME = call.workspace.path
        /\ ret.WORKSPACE = call.workspace.path
        /\ \A k \in DOMAIN ret \cap DOMAIN call.env : ret[k] # call.env[k]
        /\ \A other \in ProcessEnvs : createSandboxedEnvironment(call.workspace, other) = ret

\* C22 witness: called in a process that holds the installed credential, a
\* preloaded library and its own HOME, the function returned an environment
\* whose HOME is the workspace.
C22_Witness ==
    /\ EnvironmentReturned
    /\ "ANTHROPIC_API_KEY" \in DOMAIN call.env
    /\ "LD_PRELOAD" \in DOMAIN call.env
    /\ ret.HOME = call.workspace.path
    /\ ret.HOME # call.env.HOME

====
